---- MODULE Spec2Model ----
(***************************************************************************)
(* KPCA_Recon_Error (recon_error_kpca.py): anomaly detection by KernelPCA  *)
(* reconstruction error.                                                   *)
(*                                                                         *)
(* The state is one constructed detector (its five attributes) together    *)
(* with what the two external collaborators answer for that configuration: *)
(* sklearn's KernelPCA (eigenvalues of the full fit, the pre-image of the  *)
(* fit with k components) and numpy's default argsort (the order it gives  *)
(* to equal keys).  Both are deterministic for a fixed configuration, so   *)
(* they are drawn once, in Init.  np.random.choice reads numpy's global    *)
(* generator, which the class never seeds: it is drawn at every call.      *)
(*                                                                         *)
(* Conventions.  Rows and positions are numbered from 1 (Python: from 0).  *)
(* A float is a fraction [num, den] with den > 0; the contamination is a   *)
(* numerator over CDen.  Floating-point rounding is not modelled.          *)
(*                                                                         *)
(* KernelPCA is taken to converge: its eigenvalues after a fit with        *)
(* n_components=None are positive and sorted descending, between 1 and n   *)
(* of them; its pre-images are arbitrary within a small family.  What it   *)
(* does on an all-zero spectrum is not modelled.                           *)
(***************************************************************************)
EXTENDS Integers, Sequences, FiniteSets

\* ---- bounds of the model ----
MaxSize == 5  \* rows n >= 2 and features d >= 1 with n + d <= MaxSize
CDen == 4     \* contamination = c / CDen, c in -(CDen \div 2) .. (CDen \div 2) + 1

VARIABLES
    matrix,         \* self.matrix: the standardized matrix, n rows of d entries
    contamination,  \* self.contamination (numerator over CDen)
    kernel,         \* self.kernel
    gamma,          \* self.gamma
    random_state,   \* self.random_state
    lambdas_,       \* KernelPCA(n_components=None).fit(matrix).lambdas_
    preimage,       \* preimage[k]: inverse_transform(fit_transform(matrix)) with n_components=k
    ties,           \* the order numpy's default (unstable) sort gives to equal keys
    ret             \* the last call: operation, outcome, value, KernelPCA objects built

config == <<matrix, contamination, kernel, gamma, random_state>>
oracle == <<lambdas_, preimage, ties>>
vars == <<matrix, contamination, kernel, gamma, random_state, lambdas_, preimage, ties, ret>>

\* ---- arithmetic helpers ----
Min(a, b) == IF a <= b THEN a ELSE b
Max(a, b) == IF a >= b THEN a ELSE b
Range(s) == {s[i] : i \in 1..Len(s)}

RECURSIVE SumTo(_, _)
\* s[1] + ... + s[k]
SumTo(s, k) == IF k = 0 THEN 0 ELSE SumTo(s, k - 1) + s[k]

\* np.sum of a vector
np_sum(s) == SumTo(s, Len(s))

\* np.cumsum of a vector
np_cumsum(s) == [k \in 1..Len(s) |-> SumTo(s, k)]

\* np.sqrt on the integers whose root is an integer (the only ones that arise)
np_sqrt(x) == CHOOSE s \in 0..x : s * s <= x /\ (s + 1) * (s + 1) > x

\* np.ceil of the fraction a / b (b > 0), then int()
int_ceil(a, b) == 0 - ((0 - a) \div b)

\* comparison of fractions with positive denominators
FLt(a, b) == a.num * b.den < b.num * a.den
FEq(a, b) == a.num * b.den = b.num * a.den
FGe(a, b) == ~FLt(a, b)
FNeg(a) == [num |-> 0 - a.num, den |-> a.den]

\* ndarray.shape of a matrix held as a sequence of rows
shape(M) == <<Len(M), IF Len(M) = 0 THEN 0 ELSE Len(M[1])>>

\* s[-m:] of Python for 0 < m <= len(s): the last m entries
SliceLast(s, m) ==
    IF m > 0 /\ m <= Len(s) THEN SubSeq(s, Len(s) - m + 1, Len(s)) ELSE <<>>

\* s[:m] of Python, m possibly negative
Slice(s, m) ==
    IF m >= 0 THEN SubSeq(s, 1, Min(m, Len(s)))
    ELSE SubSeq(s, 1, Max(Len(s) + m, 0))

\* ---- the configuration ----
n_samples == Len(matrix)
n_features == Len(matrix[1])

\* StandardScaler().fit_transform: an n x d matrix with zero column means
\* (an integer stand-in; the entries themselves decide nothing below)
Standardized(n, d) == [r \in 1..n |-> [c \in 1..d |-> 2 * r - (n + 1)]]

Contaminations == (0 - (CDen \div 2)) .. ((CDen \div 2) + 1)

\* contamination within [0, 0.5]
InRange(c) == c >= 0 /\ 2 * c <= CDen

\* ---- what KernelPCA can answer ----
\* lambdas_ after a fit with n_components=None: the non-zero eigenvalues of the
\* centred n x n kernel matrix, sorted descending: between 1 and n of them
\* (for each length m the spectrum m, m-1, .., 1)
Spectra(n) == {[i \in 1..m |-> m + 1 - i] : m \in 1..n}

\* pre-images of M: M itself, or M with one row off by 1 in its first feature
Approximations(M) ==
    {[r \in 1..Len(M) |-> [c \in 1..Len(M[1]) |->
        IF r = s /\ c = 1 THEN M[r][c] - 1 ELSE M[r][c]]] : s \in 0..Len(M)}

\* the pre-images of a whole sweep, one per component count 1..d; and, should
\* the primitive break its contract, one of them comes back a row short
Sweeps(M) ==
    [1..Len(M[1]) -> Approximations(M)]
    \cup {[k \in 1..Len(M[1]) |-> IF k = b THEN SubSeq(M, 1, Len(M) - 1) ELSE M] :
             b \in 1..Len(M[1])}

Orders(n) == {p \in [1..n -> 1..n] : \A i, j \in 1..n : i # j => p[i] # p[j]}

\* the KernelPCA object built with n_components = k (0 stands for None)
KernelPCA(k) ==
    [n_components |-> k, kernel |-> kernel, gamma |-> gamma,
     fit_inverse_transform |-> TRUE, random_state |-> random_state]

\* ---- get_ev_ratio ----
get_ev_ratio ==
    LET total == np_sum(lambdas_)
        cum == np_cumsum(lambdas_)
    IN  [k \in 1..Len(lambdas_) |-> [num |-> cum[k], den |-> total]]

\* ---- reconstruct_matrix ----
\* range(1, col): a sweep that stops one component count early
sweep_short(col) == 1..(col - 1)

\* range(1, col+1): the component counts of the sweep
sweep(col) == 1..col

\* reconstruct(recon_pc_num): the pre-image, once its shape is asserted
reconstruct(recon_pc_num) ==
    LET recon_matrix == preimage[recon_pc_num]
    IN  IF shape(recon_matrix) = shape(matrix)
        THEN [status |-> "ok", val |-> recon_matrix]
        ELSE [status |-> "AssertionError", val |-> <<>>]

\* what np.random.choice(range(col), size=2, replace=False) can return;
\* it raises ValueError when col < 2 (no draw: the empty tuple)
random_choice(col) ==
    IF col < 2 THEN {<<>>}
    ELSE {p \in (1..col) \X (1..col) : p[1] # p[2]}

\* np.all(A == B) for two matrices of one shape
np_all_equal(A, B) == \A r \in 1..Len(A) : \A c \in 1..Len(A[r]) : A[r][c] = B[r][c]

reconstruct_matrix(draw) ==
    LET col == n_features
        ks == sweep(col)
        bad == {k \in ks : reconstruct(k).status # "ok"}
        first_bad == CHOOSE k \in bad : \A m \in bad : k <= m
        built(last) == [k \in 1..last |-> KernelPCA(k)]
        count == Cardinality(ks)
        recon_matrices == [k \in 1..count |-> reconstruct(k).val]
    IN  IF bad # {}
        THEN [status |-> "AssertionError", val |-> <<>>, fits |-> built(first_bad)]
        ELSE IF draw = <<>>
        THEN [status |-> "ValueError", val |-> <<>>, fits |-> built(count)]
        ELSE IF draw[1] > count \/ draw[2] > count
        THEN [status |-> "IndexError", val |-> <<>>, fits |-> built(count)]
        ELSE IF np_all_equal(recon_matrices[draw[1]], recon_matrices[draw[2]])
        THEN [status |-> "AssertionError", val |-> <<>>, fits |-> built(count)]
        ELSE [status |-> "ok", val |-> recon_matrices, fits |-> built(count)]

\* ---- get_anomaly_score ----
\* the modulus of a vector
compute_vector_length(vector) ==
    np_sqrt(np_sum([c \in 1..Len(vector) |-> vector[c] * vector[c]]))

\* the sub-score of every row for one reconstruction matrix and its weight
compute_sub_score(recon_matrix, ev) ==
    LET delta_matrix == [r \in 1..n_samples |->
            [c \in 1..n_features |-> matrix[r][c] - recon_matrix[r][c]]]
    IN  [r \in 1..n_samples |->
            [num |-> compute_vector_length(delta_matrix[r]) * ev.num, den |-> ev.den]]

\* map(f, xs, ys) stops at the shorter of its two argument lists
map_length(xs, ys) == Min(Len(xs), Len(ys))

\* np.sum(list(map(compute_sub_score, reconstruct_matrices, ev_ratio)), axis=0)
summarize(reconstruct_matrices, ev_ratio) ==
    LET anomaly_scores == [t \in 1..map_length(reconstruct_matrices, ev_ratio) |->
            compute_sub_score(reconstruct_matrices[t], ev_ratio[t])]
        column(r) == [t \in 1..Len(anomaly_scores) |-> anomaly_scores[t][r].num]
    IN  [r \in 1..n_samples |-> [num |-> np_sum(column(r)), den |-> ev_ratio[1].den]]

\* rm: what the call self.reconstruct_matrix() of line 76 returned or raised
get_anomaly_score(rm) ==
    LET ev_ratio == get_ev_ratio
        fitted == <<KernelPCA(0)>> \o rm.fits
    IN  IF rm.status # "ok"
        THEN [status |-> rm.status, val |-> <<>>, fits |-> fitted]
        ELSE [status |-> "ok", val |-> summarize(rm.val, ev_ratio), fits |-> fitted]

\* ---- get_anomaly_indices ----
\* scores handed to np.argsort as they are: an ascending selection
not_negated(scores) == scores

\* -scores: the keys handed to np.argsort
negated(scores) == [r \in 1..Len(scores) |-> FNeg(scores[r])]

\* np.argsort(x), default kind: ascending by key; the default sort is not
\* stable, equal keys come out in the order the build's sort leaves them (ties)
np_argsort(x) ==
    LET rank(i) == CHOOSE p \in 1..Len(ties) : ties[p] = i
        before(j, i) == FLt(x[j], x[i]) \/ (FEq(x[j], x[i]) /\ rank(j) < rank(i))
        pos(i) == 1 + Cardinality({j \in 1..Len(x) : before(j, i)})
    IN  [p \in 1..Len(x) |-> CHOOSE i \in 1..Len(x) : pos(i) = p]

\* int(len(self.matrix) * self.contamination): rounding down
anomaly_num_floor == (n_samples * contamination) \div CDen

\* int(np.ceil(len(self.matrix) * self.contamination))
anomaly_num == int_ceil(n_samples * contamination, CDen)

get_anomaly_indices(rm) ==
    LET score == get_anomaly_score(rm)
        indices_desc == np_argsort(negated(score.val))
        anomaly_indices == Slice(indices_desc, anomaly_num)
    IN  IF score.status # "ok" THEN score
        ELSE [status |-> "ok", val |-> anomaly_indices, fits |-> score.fits]

\* ---- predict ----
predict(rm) ==
    LET indices == get_anomaly_indices(rm)
        anomaly_indices == indices.val
        pred == [i \in 1..n_samples |-> IF i \in Range(anomaly_indices) THEN 1 ELSE 0]
    IN  IF indices.status # "ok" THEN indices
        ELSE [status |-> "ok", val |-> pred, fits |-> indices.fits]

\* ---- construction ----
\* the orders the sort can leave the rows of this configuration in: by
\* descending score, equal scores in any order.  (Where no score vector can be
\* computed the sort is never reached: one order stands for all.)
SortOrders ==
    IF \E k \in 1..n_features : shape(preimage[k]) # shape(matrix)
    THEN {[i \in 1..n_samples |-> i]}
    ELSE LET score == summarize(preimage, get_ev_ratio)
         IN  {p \in Orders(n_samples) :
                \A i \in 1..(n_samples - 1) : FGe(score[p[i]], score[p[i + 1]])}

Init ==
    /\ \E n \in 2..(MaxSize - 1) : \E d \in 1..(MaxSize - n) : matrix = Standardized(n, d)
    /\ kernel = "rbf"
    /\ gamma = "None"
    /\ random_state = 2018
    /\ preimage \in Sweeps(matrix)
    /\ lambdas_ \in Spectra(Len(matrix))
    /\ ties \in SortOrders
    /\ contamination \in Contaminations
    /\ ret = [op |-> "__init__", status |-> "ok", val |-> <<>>, fits |-> <<>>]

\* ---- the calls ----
Returned(op, out) ==
    [op |-> op, status |-> out.status, val |-> out.val, fits |-> out.fits]

GetEvRatio ==
    /\ ret' = [op |-> "get_ev_ratio", status |-> "ok", val |-> get_ev_ratio,
               fits |-> <<KernelPCA(0)>>]
    /\ UNCHANGED <<config, oracle>>

\* the outcomes of one call of reconstruct_matrix, over the draws of the generator
Reconstructions == {reconstruct_matrix(draw) : draw \in random_choice(n_features)}

ReconstructMatrix ==
    /\ \E rm \in Reconstructions : ret' = Returned("reconstruct_matrix", rm)
    /\ UNCHANGED <<config, oracle>>

GetAnomalyScore ==
    /\ \E rm \in Reconstructions : ret' = Returned("get_anomaly_score", get_anomaly_score(rm))
    /\ UNCHANGED <<config, oracle>>

GetAnomalyIndices ==
    /\ \E rm \in Reconstructions :
          ret' = Returned("get_anomaly_indices", get_anomaly_indices(rm))
    /\ UNCHANGED <<config, oracle>>

Predict ==
    /\ \E rm \in Reconstructions : ret' = Returned("predict", predict(rm))
    /\ UNCHANGED <<config, oracle>>

Next ==
    \/ GetEvRatio
    \/ ReconstructMatrix
    \/ GetAnomalyScore
    \/ GetAnomalyIndices
    \/ Predict

Spec == Init /\ [][Next]_vars

\* ---- vocabulary of the properties ----
Called(op) == ret.op = op
ReturnedOk(op) == ret.op = op /\ ret.status = "ok"

\* the primitive kept its contract: every pre-image has the matrix's shape
WellShaped == \A k \in 1..n_features : shape(preimage[k]) = shape(matrix)

\* a valid configuration on a primitive that keeps its contract
Valid == InRange(contamination) /\ WellShaped

\* the rows a prediction vector marks 1
Ones(v) == {i \in 1..Len(v) : v[i] = 1}

\* the least integer not below n * contamination
CeilCount == CHOOSE m \in (0 - n_samples)..n_samples :
    m * CDen >= n_samples * contamination /\ (m - 1) * CDen < n_samples * contamination

\* the score vector of this configuration, as get_anomaly_score returns it
Scores == summarize(preimage, get_ev_ratio)

\* the Euclidean norm of row r of (standardized matrix - reconstruction k)
Residual(r, k) ==
    LET sq == np_sum([c \in 1..n_features |->
                (matrix[r][c] - preimage[k][r][c]) * (matrix[r][c] - preimage[k][r][c])])
    IN  CHOOSE s \in 0..sq : s * s = sq

\* the sum of the top-k eigenvalues (all of them when fewer than k are kept)
TopEigenvalues(k) == SumTo(lambdas_, Min(k, Len(lambdas_)))

\* C1: for contamination in [0, 0.5], predict() returns a 0/1 vector of length
\* n with exactly ceil(n * contamination) ones (none at all when it is 0).
C1_PredictCount ==
    (ReturnedOk("predict") /\ InRange(contamination)) =>
        /\ Len(ret.val) = n_samples
        /\ \A i \in 1..n_samples : ret.val[i] \in {0, 1}
        /\ Cardinality(Ones(ret.val)) = CeilCount
        /\ (contamination = 0 => Ones(ret.val) = {})

C1_Witness ==
    /\ ReturnedOk("predict") /\ InRange(contamination)
    /\ n_samples = 3 /\ Cardinality(Ones(ret.val)) = 2

\* C2: the rows predict() marks 1 are the rows get_anomaly_indices() returns,
\* there are ceil(n * contamination) of them, and each has a score at least as
\* high as every row left unmarked.
C2_FlaggedAreTop ==
    ReturnedOk("predict") =>
        LET flagged == Ones(ret.val)
        IN  /\ \A rm \in Reconstructions :
                  rm.status = "ok" => Range(get_anomaly_indices(rm).val) = flagged
            /\ InRange(contamination) => Cardinality(flagged) = CeilCount
            /\ \A i \in flagged : \A j \in (1..n_samples) \ flagged :
                  FGe(Scores[i], Scores[j])

C2_Witness ==
    /\ ReturnedOk("predict") /\ InRange(contamination)
    /\ \E i \in Ones(ret.val) : \E j \in (1..n_samples) \ Ones(ret.val) :
          FLt(Scores[j], Scores[i])

\* C3 (as stated): get_anomaly_indices() breaks ties by row order: of two rows
\* with equal scores the lower index is selected first and listed first.
C3_StableTies ==
    (ReturnedOk("get_anomaly_indices") /\ InRange(contamination)) =>
        \A i, j \in 1..n_samples :
            (i < j /\ FEq(Scores[i], Scores[j]) /\ j \in Range(ret.val)) =>
                /\ i \in Range(ret.val)
                /\ \A p, q \in 1..Len(ret.val) :
                      (ret.val[p] = i /\ ret.val[q] = j) => p < q

\* C3 (amended): for contamination in [0, 0.5], get_anomaly_indices() returns
\* ceil(n * contamination) distinct rows in non-increasing score order, each
\* scoring at least as high as every row left out; which of several equal-score
\* rows is taken, and in what order, is not determined.
C3_SortedSelection ==
    (ReturnedOk("get_anomaly_indices") /\ InRange(contamination)) =>
        /\ Len(ret.val) = CeilCount
        /\ \A p, q \in 1..Len(ret.val) : p < q =>
              /\ ret.val[p] # ret.val[q]
              /\ FGe(Scores[ret.val[p]], Scores[ret.val[q]])
        /\ \A i \in Range(ret.val) : \A j \in (1..n_samples) \ Range(ret.val) :
              FGe(Scores[i], Scores[j])

C3_Witness ==
    /\ ReturnedOk("get_anomaly_indices") /\ InRange(contamination)
    /\ \E i \in Range(ret.val) : \E j \in (1..n_samples) \ Range(ret.val) :
          FEq(Scores[i], Scores[j])
    /\ \E i \in Range(ret.val) : \E j \in (1..n_samples) \ Range(ret.val) :
          FLt(Scores[j], Scores[i])

\* C4: with a contamination outside [0, 0.5], get_anomaly_indices() and
\* predict() return nothing: the call fails, and before any decomposition.
C4_OutOfRangeRejected ==
    (~InRange(contamination) /\ (Called("get_anomaly_indices") \/ Called("predict"))) =>
        /\ ret.status # "ok"
        /\ ret.fits = <<>>

\* C5: with one feature (valid configuration), reconstruct_matrix() returns a list of one matrix,
\* get_anomaly_score() and predict() complete, and get_ev_ratio() returns the
\* one-element vector [1.0].
C5_SingleFeature ==
    (n_features = 1 /\ Valid) =>
        /\ Called("reconstruct_matrix") => (ret.status = "ok" /\ Len(ret.val) = 1)
        /\ (Called("get_anomaly_score") \/ Called("predict")) => ret.status = "ok"
        /\ Called("get_ev_ratio") =>
              (Len(ret.val) = 1 /\ ret.val[1].num = ret.val[1].den)

\* C6: on a valid configuration get_ev_ratio() returns a vector of length d, non-decreasing, ending in 1.0.
C6_EvRatioLength ==
    (Called("get_ev_ratio") /\ Valid) =>
        /\ ret.status = "ok"
        /\ Len(ret.val) = n_features
        /\ \A k \in 1..(Len(ret.val) - 1) : ~FLt(ret.val[k + 1], ret.val[k])
        /\ ret.val[Len(ret.val)].num = ret.val[Len(ret.val)].den

\* C7: what reconstruct_matrix() returns is d matrices in order of component
\* count, the k-th the pre-image of a decomposition built with n_components = k
\* and the detector's kernel, gamma and random_state, each of the standardized
\* matrix's shape n x d; a pre-image of another shape makes the call fail.
C7_SweepShape ==
    /\ ReturnedOk("reconstruct_matrix") =>
          /\ Len(ret.val) = n_features
          /\ \A k \in 1..Len(ret.val) :
                /\ ret.val[k] = preimage[k]
                /\ shape(ret.val[k]) = <<n_samples, n_features>>
          /\ ret.fits = [k \in 1..n_features |->
                [n_components |-> k, kernel |-> kernel, gamma |-> gamma,
                 fit_inverse_transform |-> TRUE, random_state |-> random_state]]
    /\ (Called("reconstruct_matrix")
          /\ \E k \in 1..n_features : shape(preimage[k]) # shape(matrix)) =>
          ret.status = "AssertionError"

C7_Witness ==
    /\ ReturnedOk("reconstruct_matrix") /\ InRange(contamination)
    /\ n_features = 3 /\ Len(ret.val) = 3
    /\ ret.val[1] # ret.val[2] /\ ret.val[2] # ret.val[3]

\* C8: on a valid configuration the score get_anomaly_score() returns for a row is the sum over every
\* k = 1..d of (norm of the row of matrix - reconstruction k) times (cumulative
\* explained-variance ratio at k): d terms, none dropped.
C8_AllComponentsSummed ==
    (ReturnedOk("get_anomaly_score") /\ Valid) =>
        \A r \in 1..n_samples :
            FEq(ret.val[r],
                [num |-> np_sum([k \in 1..n_features |-> Residual(r, k) * TopEigenvalues(k)]),
                 den |-> np_sum(lambdas_)])

\* C10: no call changes the configuration, and on a valid configuration a call
\* of the operation that was called just before has the same outcome as that
\* call (the same value, or the same failure).
C10_Repeatable ==
    [][/\ config' = config
       /\ (Valid /\ ret'.op = ret.op) => ret' = ret]_vars
====
